---------------------------- MODULE Spec2Model ----------------------------
(***************************************************************************)
(* The per-channel session core of garagemq (server/channel.go, kept as    *)
(* src/unnamed/part_000) together with the virtual host (src/vhost).       *)
(*                                                                         *)
(* One channel of one connection is modelled.  Its goroutines are          *)
(*   - the dispatch task (handleIncoming): one action per inbound frame,   *)
(*     the handler and the sendError that follows it included;             *)
(*   - one pump per consumer tag (external consumer package): Pop +        *)
(*     NextDeliveryTag, then AddUnackedMessage + SendContent;              *)
(*   - the confirm-drain task (sendConfirms);                              *)
(*   - the goroutine that runs close() (connection teardown), in the three *)
(*     sections the code has: consumers under cmrLock, handleReject under  *)
(*     ackLock, the status write.                                          *)
(* Every handler that holds ackLock or cmrLock for its whole body is one   *)
(* atomic action.                                                          *)
(*                                                                         *)
(* lastOp, calls and sent describe the step just taken: the operation,     *)
(* the calls it made on queues and the frames it wrote to the connection's *)
(* outgoing sink (an error a handler returns is seen as the frame          *)
(* sendError writes for it).                                               *)
(*                                                                         *)
(* Specifications: LedgerSpec (ledger, registry, pumps, close, virtual     *)
(* host), QosSpec (deliveries, acks and flow under both protocol           *)
(* settings), PublishSpec and RouteSpec (message assembly, routing,        *)
(* confirms), TagSpec (tag allocators), SinkSpec (frame-by-frame writes to *)
(* the outgoing sink), LockSpec (the lock calls of each function).         *)
(***************************************************************************)
EXTENDS Integers, Sequences, FiniteSets, TLC

\* ------------------------------------------------------------------ bounds
MaxDeliveryTag == 2      \* deliveries a run makes (pumps stop popping after)
MaxTagCalls    == 3      \* calls of each tag allocator in TagSpec
MaxSends       == 3      \* SendContent and confirm SendMethod calls of a run of SinkSpec
MaxPublish     == 1      \* basic.publish methods a run accepts
MaxExtraBody   == 1      \* body frames a client sends past a message's declared size
ChannelId      == 1      \* id of the modelled channel (a data channel, id > 0)

ConsumerTags == {"c1"}
QueueNames   == {"q1"}
BoundQueues  == {"q1", "q2"}   \* RouteSpec: the queues bound to amq.direct
ExchangeNames == {"amq.direct", "none"}
BodySizes    == {2}
NoAckChoices == {FALSE}
Callers      == {"g1", "g2"}
FragmentSizes == {1}
HeaderSizes  == {0, 2}

\* --------------------------------------------------------- program constants
\* The goroutines that write to channel.outgoing: the dispatch task
\* (handleIncoming), the consumer pumps, the confirm drain (sendConfirms).
Writers    == {"dispatch", "drain"} \cup ConsumerTags
\* The goroutines that take the channel's locks: the dispatch task, the
\* connection's teardown (close) and the consumer pumps.
Goroutines == {"dispatch", "teardown"} \cup ConsumerTags
Locks      == {"ackLock", "cmrLock"}

channelNew     == 0
channelOpen    == 1
channelClosing == 2
channelClosed  == 3

VARIABLES
    status,             \* Channel.status
    active,             \* Channel.active
    confirmMode,        \* Channel.confirmMode
    proto091,           \* server.protoVersion == amqp.Proto091
    currentMessage,     \* Channel.currentMessage
    consumers,          \* Channel.consumers: tag -> [queue, noAck]
    qos,                \* current usage of channel.qos, conn.qos and each consumer's own copy
    deliveryTag,        \* Channel.deliveryTag
    confirmDeliveryTag, \* Channel.confirmDeliveryTag
    confirmQueue,       \* Channel.confirmQueue
    ackStore,           \* Channel.ackStore: delivery tag -> [cTag, queue, size]
    metrics,            \* Channel.srvMetrics (this channel's contributions)
    connStatus,         \* Connection.status
    queues,             \* VirtualHost.queues (names present)
    exchanges,          \* VirtualHost.exchanges (names present)
    pump,               \* per consumer tag: the pump goroutine's position
    drainPc,            \* position of sendConfirms
    currentConfirms,    \* sendConfirms' local batch
    closePc,            \* position of close()
    publishes,          \* number of basic.publish methods accepted
    tagLog,             \* TagSpec: the values the allocators returned, in order
    outgoing,           \* SinkSpec: the frames written to channel.outgoing, in order
    sending,            \* SinkSpec: per goroutine, the frames its SendContent call has yet to write
    lockOwner,          \* LockSpec: the goroutine that holds ackLock / cmrLock
    lockScript,         \* LockSpec: per goroutine, the lock operations its call has yet to make
    lastOp, calls, sent

chanVars  == <<status, active, confirmMode, proto091, currentMessage, consumers, qos,
               deliveryTag, confirmDeliveryTag, confirmQueue, ackStore, metrics>>
envVars   == <<connStatus, queues, exchanges>>
taskVars  == <<pump, drainPc, currentConfirms, closePc, publishes>>
ghostVars == <<tagLog, lastOp, calls, sent>>
sinkVars  == <<outgoing, sending>>
lockVars  == <<lockOwner, lockScript>>
vars      == <<chanVars, envVars, taskVars, ghostVars, sinkVars, lockVars>>

\* ------------------------------------------------------------------ values
NoMessage ==
    [present |-> FALSE, exchange |-> "", mandatory |-> FALSE, persistent |-> FALSE,
     hasHeader |-> FALSE, headerBodySize |-> 0, bodySize |-> 0, frames |-> 0,
     confirmTag |-> 0, expectedConfirms |-> 0, actualConfirms |-> 0]

\* An amqp.Error: its type, reply code, reply text (the format and its
\* argument) and the method it is about (class and method id; none is 0, 0).
NoError == [type |-> "none", code |-> "", fmt |-> "", arg |-> 0, method |-> ""]

NewChannelError(code, fmt, arg, method) ==
    [type |-> "channel", code |-> code, fmt |-> fmt, arg |-> arg, method |-> method]

NewConnectionError(code, fmt) ==
    [type |-> "connection", code |-> code, fmt |-> fmt, arg |-> 0, method |-> ""]

Op(name, multiple, requeue) == [op |-> name, multiple |-> multiple, requeue |-> requeue]

Call(fn, queue, tag) == [fn |-> fn, queue |-> queue, tag |-> tag]

MethodFrame(chan, name, err) ==
    [type |-> "Method", chan |-> chan, name |-> name, code |-> err.code,
     fmt |-> err.fmt, arg |-> err.arg, method |-> err.method]

ContentFrame(type, chan) ==
    [type |-> type, chan |-> chan, name |-> "", code |-> "", fmt |-> "", arg |-> 0,
     method |-> ""]

ZeroQos == [count |-> 0, size |-> 0]

ZeroMetrics ==
    [publish |-> 0, deliver |-> 0, acknowledge |-> 0, confirm |-> 0,
     total |-> 0, ready |-> 0, unacked |-> 0]

IdlePump == [pc |-> "idle", dTag |-> 0, queue |-> "", size |-> 0, noAck |-> FALSE]

\* ------------------------------------------------------------ tag allocation
\* atomic.StoreUint64 in place of AddUint64: every caller gets the delta back.
AtomicStoreUint64(value, delta) == delta

\* atomic.AddUint64: the new value, which is also the value returned.  The
\* counters are 64 bits wide; no run of the model comes near the wrap.
AtomicAddUint64(value, delta) == value + delta

NextDeliveryTag(counter) == AtomicAddUint64(counter, 1)

nextConfirmDeliveryTag(counter) == AtomicAddUint64(counter, 1)

\* ---------------------------------------------------------------------- QoS
\* AmqpQos.Inc / AmqpQos.Dec on the current usage; current counts are unsigned
\* and Dec stops at zero.
QosInc(q, count, size) == [count |-> q.count + count, size |-> q.size + size]

QosDec(q, count, size) ==
    [count |-> IF q.count < count THEN 0 ELSE q.count - count,
     size  |-> IF q.size < size THEN 0 ELSE q.size - size]

\* consumer.Qos(): the accountants addConsumer gave the consumer.
\* "own" is the consumer's private copy of channel.consumerQos.
ConsumerQosList(is091) == IF is091 THEN {"channel", "conn"} ELSE {"channel", "own"}

QosStep(a, op, size) == IF op = "Inc" THEN QosInc(a, 1, size) ELSE QosDec(a, 1, size)

\* Inc or Dec of (1, size) on each of the named accountants.
QosApply(q, cTag, names, op, size) ==
    [channel |-> IF "channel" \in names THEN QosStep(q.channel, op, size) ELSE q.channel,
     conn    |-> IF "conn" \in names THEN QosStep(q.conn, op, size) ELSE q.conn,
     own     |-> [c \in ConsumerTags |->
                    IF c = cTag /\ "own" \in names THEN QosStep(q.own[c], op, size)
                    ELSE q.own[c]]]

\* decQosAndConsumerNext: release against the consumer's accountants when the
\* tag is registered, against channel.qos and conn.qos otherwise.
decQosAndConsumerNext(q, cmrs, is091, uMsg) ==
    IF uMsg.cTag \in DOMAIN cmrs
    THEN QosApply(q, uMsg.cTag, ConsumerQosList(is091), "Dec", uMsg.size)
    ELSE QosApply(q, uMsg.cTag, {"channel", "conn"}, "Dec", uMsg.size)

\* ------------------------------------------------------------ unacked ledger
\* The part of the state ackMsg and rejectMsg work on.
Ledger(store, m, q, cs) == [ackStore |-> store, metrics |-> m, qos |-> q, calls |-> cs]

RemoveTag(store, tag) == [t \in DOMAIN store \ {tag} |-> store[t]]

\* ackMsg
ackMsg(L, cmrs, qs, is091, tag) ==
    LET uMsg  == L.ackStore[tag]
        found == uMsg.queue \in qs
    IN  [ackStore |-> RemoveTag(L.ackStore, tag),
         metrics  |-> IF found
                      THEN [L.metrics EXCEPT !.acknowledge = @ + 1,
                                             !.total = @ - 1,
                                             !.unacked = @ - 1]
                      ELSE L.metrics,
         qos      |-> decQosAndConsumerNext(L.qos, cmrs, is091, uMsg),
         calls    |-> IF found THEN Append(L.calls, Call("AckMsg", uMsg.queue, tag))
                      ELSE L.calls]

\* rejectMsg
rejectMsg(L, cmrs, qs, is091, tag, requeue) ==
    LET uMsg  == L.ackStore[tag]
        found == uMsg.queue \in qs
    IN  [ackStore |-> RemoveTag(L.ackStore, tag),
         metrics  |-> IF found
                      THEN [L.metrics EXCEPT
                               !.ready = IF requeue THEN @ + 1 ELSE @,
                               !.unacked = @ - 1]
                      ELSE L.metrics,
         qos      |-> decQosAndConsumerNext(L.qos, cmrs, is091, uMsg),
         calls    |-> IF found
                      THEN Append(L.calls,
                                  Call(IF requeue THEN "Requeue" ELSE "AckMsg", uMsg.queue, tag))
                      ELSE L.calls]

\* The multiple=true selection with the zero test left out.
SelectedNoZero(store, dTag) == {t \in DOMAIN store : t <= dTag}

\* The tags a multiple=true ack/nack/reject applies to.
Selected(store, dTag) ==
    {t \in DOMAIN store : dTag = 0 \/ t <= dTag}

RECURSIVE AscendingOrder(_)
AscendingOrder(S) ==
    IF S = {} THEN <<>>
    ELSE LET m == CHOOSE x \in S : \A y \in S : x <= y
         IN  <<m>> \o AscendingOrder(S \ {m})

\* sort.Slice(dTags, func(i, j) { return dTags[i] > dTags[j] })
RECURSIVE DescendingOrder(_)
DescendingOrder(S) ==
    IF S = {} THEN <<>>
    ELSE LET m == CHOOSE x \in S : \A y \in S : x >= y
         IN  <<m>> \o DescendingOrder(S \ {m})

\* Every order a range over a Go map may visit the keys S in.
RECURSIVE MapOrders(_)
MapOrders(S) ==
    IF S = {} THEN {<<>>}
    ELSE UNION {{<<x>> \o rest : rest \in MapOrders(S \ {x})} : x \in S}

RECURSIVE ackAll(_, _, _, _, _)
ackAll(L, cmrs, qs, is091, order) ==
    IF order = <<>> THEN L
    ELSE ackAll(ackMsg(L, cmrs, qs, is091, Head(order)), cmrs, qs, is091, Tail(order))

RECURSIVE rejectAll(_, _, _, _, _, _)
rejectAll(L, cmrs, qs, is091, order, requeue) ==
    IF order = <<>> THEN L
    ELSE rejectAll(rejectMsg(L, cmrs, qs, is091, Head(order), requeue),
                   cmrs, qs, is091, Tail(order), requeue)

\* handleReject's multiple branch: all keys, sorted descending, the selected ones rejected.
rejectMultiple(L, cmrs, qs, is091, dTag, requeue) ==
    LET sel == Selected(L.ackStore, dTag)
    IN  rejectAll(L, cmrs, qs, is091, DescendingOrder(sel), requeue)

\* The same refusal raised as a connection error.
DeliveryTagNotFoundOnConnection(dTag, method) ==
    [type |-> "connection", code |-> "PreconditionFailed",
     fmt |-> "Delivery tag [%d] not found", arg |-> dTag, method |-> method]

\* NewChannelError(PreconditionFailed, "Delivery tag [%d] not found", class, method)
DeliveryTagNotFound(dTag, method) ==
    NewChannelError("PreconditionFailed", "Delivery tag [%d] not found", dTag, method)

\* ----------------------------------------------------------------- sendError
\* The frames sendError writes and the status it sets, for the error a
\* handler returned (none: nothing happens).
ErrorFrames(err) ==
    IF err.type = "channel" THEN <<MethodFrame(ChannelId, "channel.close", err)>>
    ELSE IF err.type = "connection" THEN <<MethodFrame(0, "connection.close", err)>>
    ELSE <<>>

StatusAfter(err, st) == IF err.type = "channel" THEN channelClosing ELSE st

ConnStatusAfter(err, st) == IF err.type = "connection" THEN "ConnClosing" ELSE st


\* AddUnackedMessage
AddUnackedMessage(L, dTag, cTag, queue, size) ==
    [L EXCEPT !.ackStore = [t \in DOMAIN L.ackStore \cup {dTag} |->
                               IF t = dTag THEN [cTag |-> cTag, queue |-> queue, size |-> size]
                               ELSE L.ackStore[t]],
              !.metrics = [@ EXCEPT !.unacked = @ + 1, !.ready = @ - 1]]

\* --------------------------------------------------------------------- Init
\* NewChannel; the virtual host holds the system exchanges and the queues
\* loadQueues found.
Init ==
    /\ status = channelNew
    /\ active = TRUE
    /\ confirmMode = FALSE
    /\ proto091 \in BOOLEAN
    /\ currentMessage = NoMessage
    /\ consumers = <<>>
    /\ qos = [channel |-> ZeroQos, conn |-> ZeroQos, own |-> [c \in ConsumerTags |-> ZeroQos]]
    /\ deliveryTag = 0
    /\ confirmDeliveryTag = 0
    /\ confirmQueue = <<>>
    /\ ackStore = <<>>
    /\ metrics = ZeroMetrics
    /\ connStatus = "ConnOpen"
    /\ queues \in SUBSET (QueueNames \cup BoundQueues)
    /\ exchanges = {"amq.direct"}
    /\ pump = [c \in ConsumerTags |-> IdlePump]
    /\ drainPc = "tick"
    /\ currentConfirms = <<>>
    /\ closePc = "none"
    /\ publishes = 0
    /\ tagLog = <<>>
    /\ outgoing = <<>>
    /\ sending = [w \in Writers |-> <<>>]
    /\ lockOwner = [l \in Locks |-> "none"]
    /\ lockScript = [g \in Goroutines |-> <<>>]
    /\ lastOp = Op("NewChannel", FALSE, FALSE)
    /\ calls = <<>>
    /\ sent = <<>>

\* What a handler of the dispatch task leaves behind: the ledger state L it
\* produced and the error it returned, which handleIncoming passes to sendError.
Dispatched(op, L, err) ==
    /\ ackStore' = L.ackStore
    /\ metrics' = L.metrics
    /\ qos' = L.qos
    /\ calls' = L.calls
    /\ lastOp' = op
    /\ status' = StatusAfter(err, status)
    /\ connStatus' = ConnStatusAfter(err, connStatus)
    /\ sent' = ErrorFrames(err)

Here == Ledger(ackStore, metrics, qos, <<>>)

\* ------------------------------------------------------- dispatch: the ledger
\* handleAck
handleAck(dTag, multiple) ==
    /\ IF multiple
       THEN \E order \in MapOrders(Selected(ackStore, dTag)) :
               Dispatched(Op("basic.ack", multiple, FALSE),
                          ackAll(Here, consumers, queues, proto091, order), NoError)
       ELSE IF dTag \notin DOMAIN ackStore
            THEN Dispatched(Op("basic.ack", multiple, FALSE), Here,
                            DeliveryTagNotFound(dTag, "basic.ack"))
            ELSE Dispatched(Op("basic.ack", multiple, FALSE),
                            ackMsg(Here, consumers, queues, proto091, dTag), NoError)
    /\ UNCHANGED <<active, confirmMode, proto091, sinkVars, lockVars, currentMessage, consumers, deliveryTag,
                   confirmDeliveryTag, confirmQueue, queues, exchanges, taskVars,
                   tagLog>>

\* handleReject, for basic.nack and basic.reject (name tells which)
handleReject(name, dTag, multiple, requeue) ==
    /\ IF multiple
       THEN Dispatched(Op(name, multiple, requeue),
                       rejectMultiple(Here, consumers, queues, proto091, dTag, requeue),
                       NoError)
       ELSE IF dTag \notin DOMAIN ackStore
            THEN Dispatched(Op(name, multiple, requeue), Here,
                            DeliveryTagNotFound(dTag, name))
            ELSE Dispatched(Op(name, multiple, requeue),
                            rejectMsg(Here, consumers, queues, proto091, dTag, requeue),
                            NoError)
    /\ UNCHANGED <<active, confirmMode, proto091, sinkVars, lockVars, currentMessage, consumers, deliveryTag,
                   confirmDeliveryTag, confirmQueue, queues, exchanges, taskVars,
                   tagLog>>

BasicAck == \E dTag \in 0..MaxDeliveryTag, multiple \in BOOLEAN : handleAck(dTag, multiple)

BasicNack ==
    \E dTag \in 0..MaxDeliveryTag, multiple \in BOOLEAN, requeue \in BOOLEAN :
        handleReject("basic.nack", dTag, multiple, requeue)

BasicReject ==
    \E dTag \in 0..MaxDeliveryTag, requeue \in BOOLEAN :
        handleReject("basic.reject", dTag, FALSE, requeue)

\* ------------------------------------------------- dispatch: the consumers
\* addConsumer, for basic.consume(queue, consumer-tag, no-ack); quErr is the
\* queue refusing the consumer (exclusive access).
\* addConsumer's checks with the registry lookup left out
consumeErrorNoTagCheck(queue, cTag, quErr, qs, cmrs) ==
    IF queue \notin qs
    THEN NewChannelError("NotFound", "queue '%s' not found", 0, "basic.consume")
    ELSE IF quErr
    THEN NewChannelError("AccessRefused", "%s", 0, "basic.consume")
    ELSE NoError

\* addConsumer's checks, in the order it makes them: the queue lookup, the
\* registry lookup, the queue's own AddConsumer.
consumeError(queue, cTag, quErr, qs, cmrs) ==
    IF queue \notin qs
    THEN NewChannelError("NotFound", "queue '%s' not found", 0, "basic.consume")
    ELSE IF cTag \in DOMAIN cmrs
    THEN NewChannelError("NotAllowed", "Consumer with tag '%s' already exists", 0,
                         "basic.consume")
    ELSE IF quErr
    THEN NewChannelError("AccessRefused", "%s", 0, "basic.consume")
    ELSE NoError

addConsumer(queue, cTag, noAck, quErr) ==
    LET op  == Op("basic.consume", FALSE, FALSE)
        err == consumeError(queue, cTag, quErr, queues, consumers)
        L   == [Here EXCEPT !.qos.own[cTag] = IF err = NoError THEN ZeroQos ELSE @,
                            !.calls = IF err.code \in {"", "AccessRefused"}
                                      THEN <<Call("AddConsumer", queue, 0)>> ELSE <<>>]
    IN  /\ Dispatched(op, L, err)
        /\ consumers' = IF err = NoError
                        THEN [c \in DOMAIN consumers \cup {cTag} |->
                                 IF c = cTag THEN [queue |-> queue, noAck |-> noAck]
                                 ELSE consumers[c]]
                        ELSE consumers
        /\ UNCHANGED <<active, confirmMode, proto091, sinkVars, lockVars, currentMessage, deliveryTag,
                       confirmDeliveryTag, confirmQueue, queues, exchanges, taskVars,
                       tagLog>>

BasicConsume ==
    \E queue \in QueueNames, cTag \in ConsumerTags, noAck \in NoAckChoices, quErr \in BOOLEAN :
        addConsumer(queue, cTag, noAck, quErr)

\* removeConsumer, for basic.cancel(consumer-tag)
removeConsumer(cTag) ==
    /\ Dispatched(Op("basic.cancel", FALSE, FALSE), Here, NoError)
    /\ consumers' = [c \in DOMAIN consumers \ {cTag} |-> consumers[c]]
    /\ UNCHANGED <<active, confirmMode, proto091, sinkVars, lockVars, currentMessage, deliveryTag,
                   confirmDeliveryTag, confirmQueue, queues, exchanges, taskVars,
                   tagLog>>

BasicCancel == \E cTag \in ConsumerTags : removeConsumer(cTag)

\* ---------------------------------------------------------- consumer pumps
\* The frames SendContent writes for a message of `frames` body fragments.
ContentFrames(method, frames) ==
    <<MethodFrame(ChannelId, method, NoError), ContentFrame("Header", ChannelId)>>
    \o [i \in 1..frames |-> ContentFrame("Body", ChannelId)]

\* The pump of consumer cTag takes a message from its queue (PopQos charges the
\* consumer's accountants unless no-ack) and a delivery tag.
PumpPop(cTag) ==
    /\ cTag \in DOMAIN consumers
    /\ consumers[cTag].queue \in queues
    /\ active
    /\ pump[cTag].pc = "idle"
    /\ deliveryTag < MaxDeliveryTag
    /\ \E size \in BodySizes :
          LET cmr == consumers[cTag]
          IN  /\ deliveryTag' = NextDeliveryTag(deliveryTag)
              /\ pump' = [pump EXCEPT ![cTag] =
                            [pc |-> "tagged", dTag |-> deliveryTag', queue |-> cmr.queue,
                             size |-> size, noAck |-> cmr.noAck]]
              /\ qos' = IF cmr.noAck THEN qos
                        ELSE QosApply(qos, cTag, ConsumerQosList(proto091), "Inc", size)
    /\ lastOp' = Op("Pop", FALSE, FALSE)
    /\ calls' = <<>>
    /\ sent' = <<>>
    /\ UNCHANGED <<status, active, confirmMode, proto091, sinkVars, lockVars, currentMessage, consumers,
                   confirmDeliveryTag, confirmQueue, ackStore, metrics, envVars,
                   drainPc, currentConfirms, closePc, publishes, tagLog>>

\* The pump records the delivery (AddUnackedMessage, unless no-ack) and sends it
\* (SendContent with basic.deliver).
PumpDeliver(cTag) ==
    /\ pump[cTag].pc = "tagged"
    /\ LET p == pump[cTag]
           L == IF p.noAck THEN Here
                ELSE AddUnackedMessage(Here, p.dTag, cTag, p.queue, p.size)
       IN  /\ ackStore' = L.ackStore
           /\ metrics' = [L.metrics EXCEPT !.deliver = @ + 1]
           /\ lastOp' = Op("AddUnackedMessage", FALSE, FALSE)
    /\ pump' = [pump EXCEPT ![cTag] = IdlePump]
    /\ calls' = <<>>
    /\ sent' = ContentFrames("basic.deliver", 1)
    /\ UNCHANGED <<status, active, confirmMode, proto091, sinkVars, lockVars, currentMessage, consumers, qos,
                   deliveryTag, confirmDeliveryTag, confirmQueue, envVars,
                   drainPc, currentConfirms, closePc, publishes, tagLog>>

\* -------------------------------------------------------------------- close
\* close, first section: under cmrLock every consumer is stopped and deleted.
CloseConsumers ==
    /\ closePc = "none"
    /\ closePc' = "stopped"
    /\ consumers' = <<>>
    /\ lastOp' = Op("close.consumers", FALSE, FALSE)
    /\ calls' = <<>>
    /\ sent' = <<>>
    /\ UNCHANGED <<status, active, confirmMode, proto091, sinkVars, lockVars, currentMessage, qos, deliveryTag,
                   confirmDeliveryTag, confirmQueue, ackStore, metrics, envVars,
                   pump, drainPc, currentConfirms, publishes, tagLog>>

\* close, second section: handleReject(0, true, true) on a channel with id > 0.
CloseReject ==
    /\ closePc = "stopped"
    /\ closePc' = "rejected"
    /\ LET L == IF ChannelId > 0
                THEN rejectMultiple(Here, consumers, queues, proto091, 0, TRUE)
                ELSE Here
       IN  /\ ackStore' = L.ackStore
           /\ metrics' = L.metrics
           /\ qos' = L.qos
           /\ calls' = L.calls
    /\ lastOp' = Op("close.reject", TRUE, TRUE)
    /\ sent' = <<>>
    /\ UNCHANGED <<status, active, confirmMode, proto091, sinkVars, lockVars, currentMessage, consumers,
                   deliveryTag, confirmDeliveryTag, confirmQueue, envVars,
                   pump, drainPc, currentConfirms, publishes, tagLog>>

\* close, last statement: the status becomes channelClosed and close returns.
CloseStatus ==
    /\ closePc = "rejected"
    /\ closePc' = "done"
    /\ status' = channelClosed
    /\ lastOp' = Op("close.return", FALSE, FALSE)
    /\ calls' = <<>>
    /\ sent' = <<>>
    /\ UNCHANGED <<active, confirmMode, proto091, sinkVars, lockVars, currentMessage, consumers, qos, deliveryTag,
                   confirmDeliveryTag, confirmQueue, ackStore, metrics, envVars,
                   pump, drainPc, currentConfirms, publishes, tagLog>>

\* ------------------------------------------------------------- virtual host
\* VirtualHost.DeleteQueue of a queue that is present and lets itself be deleted.
DeleteQueue(queueName) ==
    /\ queueName \in queues
    /\ queues' = queues \ {queueName}
    /\ lastOp' = Op("DeleteQueue", FALSE, FALSE)
    /\ calls' = <<>>
    /\ sent' = <<>>
    /\ UNCHANGED <<chanVars, sinkVars, lockVars, connStatus, exchanges, taskVars, tagLog>>

\* VirtualHost.AppendQueue
AppendQueue(queueName) ==
    /\ queueName \notin queues
    /\ queues' = queues \cup {queueName}
    /\ lastOp' = Op("AppendQueue", FALSE, FALSE)
    /\ calls' = <<>>
    /\ sent' = <<>>
    /\ UNCHANGED <<chanVars, sinkVars, lockVars, connStatus, exchanges, taskVars, tagLog>>

\* ------------------------------------------------------------ specifications
LedgerNext ==
    \/ BasicAck
    \/ BasicNack
    \/ BasicReject
    \/ BasicConsume
    \/ BasicCancel
    \/ \E cTag \in ConsumerTags : PumpPop(cTag)
    \/ \E cTag \in ConsumerTags : PumpDeliver(cTag)
    \/ CloseConsumers
    \/ CloseReject
    \/ CloseStatus
    \/ \E queueName \in QueueNames : DeleteQueue(queueName)
    \/ \E queueName \in QueueNames : AppendQueue(queueName)

\* The unacked ledger, the consumer registry, the pumps, close and the virtual
\* host, on a server that speaks AMQP 0-9-1.
LedgerInit == Init /\ proto091 /\ queues \subseteq QueueNames

LedgerSpec == LedgerInit /\ [][LedgerNext]_vars


\* ------------------------------------------------- dispatch: publishing
\* A publish is in assembly from its basic.publish until its body is complete.
InAssembly(msg) == msg.present /\ (~msg.hasHeader \/ msg.bodySize < msg.headerBodySize)

\* The per-class handlers refuse a method that arrives while a message is in assembly.
MethodDuringAssembly(msg) ==
    IF InAssembly(msg)
    THEN NewConnectionError("FrameError", "unexpected method frame")
    ELSE NoError

\* What a frame handler of the publishing side leaves behind: the error it
\* returned goes to sendError; the ledger is not touched.
Handled(op, err, frames, cs) ==
    /\ lastOp' = op
    /\ status' = StatusAfter(err, status)
    /\ connStatus' = ConnStatusAfter(err, connStatus)
    /\ sent' = frames \o ErrorFrames(err)
    /\ calls' = cs
    /\ UNCHANGED <<active, proto091, sinkVars, lockVars, consumers, qos, deliveryTag, ackStore, queues, exchanges,
                   pump, drainPc, currentConfirms, closePc, tagLog>>

\* basic.publish(exchange, mandatory): a new current message; in confirm mode
\* its ConfirmMeta gets the next confirm delivery tag.
basicPublish(exchange, mandatory) ==
    LET err == MethodDuringAssembly(currentMessage)
        tag == IF confirmMode THEN nextConfirmDeliveryTag(confirmDeliveryTag) ELSE 0
    IN  /\ publishes < MaxPublish
        /\ Handled(Op("basic.publish", FALSE, FALSE), err, <<>>, <<>>)
        /\ IF err = NoError
           THEN /\ currentMessage' = [NoMessage EXCEPT !.present = TRUE,
                                                        !.exchange = exchange,
                                                        !.mandatory = mandatory,
                                                        !.confirmTag = tag]
                /\ confirmDeliveryTag' = IF confirmMode THEN tag ELSE confirmDeliveryTag
                /\ publishes' = publishes + 1
           ELSE UNCHANGED <<currentMessage, confirmDeliveryTag, publishes>>
        /\ UNCHANGED <<confirmMode, confirmQueue, metrics>>

\* confirm.select: the channel enters confirm mode and answers confirm.select-ok.
confirmSelect ==
    LET err == MethodDuringAssembly(currentMessage)
    IN  /\ ~confirmMode
        /\ Handled(Op("confirm.select", FALSE, FALSE), err,
                   IF err = NoError
                   THEN <<MethodFrame(ChannelId, "confirm.select-ok", NoError)>> ELSE <<>>,
                   <<>>)
        /\ confirmMode' = (err = NoError)
        /\ UNCHANGED <<currentMessage, confirmDeliveryTag, publishes, confirmQueue, metrics>>

\* handleMethod for a method whose class is none of the six the switch names
\* (tx.select): nothing is routed and nil is returned.
handleMethodOtherClass ==
    /\ Handled(Op("tx.select", FALSE, FALSE), NoError, <<>>, <<>>)
    /\ UNCHANGED <<confirmMode, currentMessage, confirmDeliveryTag, publishes, confirmQueue,
                   metrics>>

\* handleContentHeader's checks
headerFrameError(msg, parseOk) ==
    IF ~msg.present
    THEN NewConnectionError("FrameError", "unexpected content header frame")
    ELSE IF msg.hasHeader
    THEN NewConnectionError("FrameError",
                            "unexpected content header frame - header already exists")
    ELSE IF ~parseOk
    THEN NewConnectionError("FrameError", "error on parsing content header frame")
    ELSE NoError

\* handleContentHeader, for a header that declares bodySize and delivery mode
handleContentHeader(bodySize, persistent, parseOk) ==
    LET err == headerFrameError(currentMessage, parseOk)
    IN  /\ Handled(Op("header", FALSE, FALSE), err, <<>>, <<>>)
        /\ currentMessage' = IF err = NoError
                             THEN [currentMessage EXCEPT !.hasHeader = TRUE,
                                                         !.headerBodySize = bodySize,
                                                         !.persistent = persistent]
                             ELSE currentMessage
        /\ UNCHANGED <<confirmMode, confirmDeliveryTag, publishes, confirmQueue, metrics>>

\* handleContentBody's checks, with the header check left out
bodyFrameErrorNoHeaderCheck(msg) ==
    IF ~msg.present
    THEN NewConnectionError("FrameError", "unexpected content body frame")
    ELSE NoError

\* handleContentBody's checks
bodyFrameError(msg) ==
    IF ~msg.present
    THEN NewConnectionError("FrameError", "unexpected content body frame")
    ELSE IF ~msg.hasHeader
    THEN NewConnectionError("FrameError", "unexpected content body frame - no header yet")
    ELSE NoError

\* Message.Append
Append1(msg, size) == [msg EXCEPT !.bodySize = @ + size, !.frames = @ + 1]

\* ConfirmMeta.CanConfirm
CanConfirm(msg) == msg.actualConfirms = msg.expectedConfirms

\* Queue.Push on the message's ConfirmMeta: a push that needs no durable
\* store counts as confirmed at once.
Pushed(msg) == IF msg.persistent THEN msg ELSE [msg EXCEPT !.actualConfirms = @ + 1]

\* addConfirm: nothing outside confirm mode, nothing on a closed channel
addConfirm(buffer, mode, st, tag) ==
    IF ~mode \/ st = channelClosed THEN buffer ELSE Append(buffer, tag)

\* The part of the state the routing of a complete message works on.
Routing(msg, buffer, m, cs, frames) ==
    [msg |-> msg, confirmQueue |-> buffer, metrics |-> m, calls |-> cs, sent |-> frames]

\* One round of the loop with the CanConfirm test left out.
pushOneNoCanConfirm(R, mode, st, queueName) ==
    LET msg == Pushed(R.msg)
    IN  [R EXCEPT !.msg = msg,
                  !.calls = Append(@, Call("Push", queueName, 0)),
                  !.metrics = [@ EXCEPT !.total = @ + 1, !.ready = @ + 1],
                  !.confirmQueue = IF ~msg.persistent
                                   THEN addConfirm(@, mode, st, msg.confirmTag)
                                   ELSE @]

\* One round of the loop over the matched queues.
pushOne(R, mode, st, queueName) ==
    LET msg == Pushed(R.msg)
    IN  [R EXCEPT !.msg = msg,
                  !.calls = Append(@, Call("Push", queueName, 0)),
                  !.metrics = [@ EXCEPT !.total = @ + 1, !.ready = @ + 1],
                  !.confirmQueue = IF CanConfirm(msg) /\ ~msg.persistent
                                   THEN addConfirm(@, mode, st, msg.confirmTag)
                                   ELSE @]

RECURSIVE pushAll(_, _, _, _)
pushAll(R, mode, st, order) ==
    IF order = <<>> THEN R
    ELSE pushAll(pushOne(R, mode, st, Head(order)), mode, st, Tail(order))

\* A basic.return written without the returned content
BasicReturnNoContent(msg) ==
    <<MethodFrame(ChannelId, "basic.return",
                  [NoError EXCEPT !.code = "NoConsumers", !.fmt = "No route",
                                  !.method = msg.exchange])>>

\* SendContent(&amqp.BasicReturn{NoConsumers, "No route", Exchange, RoutingKey}, message):
\* the method frame (the exchange is kept in the frame's method field), then
\* the message's header and body frames.
BasicReturn(msg) ==
    <<MethodFrame(ChannelId, "basic.return",
                  [NoError EXCEPT !.code = "NoConsumers", !.fmt = "No route",
                                  !.method = msg.exchange])>>
    \o Tail(ContentFrames("basic.return", msg.frames))

\* handleContentBody from the exchange lookup on: the message is complete.
\* exs are the exchanges of the virtual host, order the matched queues in the
\* order the loop visits them.
route(R, mode, st, exs, order) ==
    IF R.msg.exchange \notin exs
    THEN [R EXCEPT !.sent = BasicReturn(R.msg)]
    ELSE IF order = <<>>
    THEN IF R.msg.mandatory
         THEN [R EXCEPT !.sent = BasicReturn(R.msg)]
         ELSE [R EXCEPT !.confirmQueue = addConfirm(@, mode, st, R.msg.confirmTag)]
    ELSE pushAll([R EXCEPT !.metrics = [@ EXCEPT !.publish = @ + 1],
                           !.msg = [@ EXCEPT !.expectedConfirms = Len(order)]],
                 mode, st, order)

\* handleContentBody, for a body frame of `size` bytes; matched is what the
\* exchange's GetMatchedQueues returns and order the loop's order over it.
handleContentBody(size, order) ==
    LET err == bodyFrameError(currentMessage)
        msg == Append1(currentMessage, size)
        R0  == Routing(msg, confirmQueue, metrics, <<>>, <<>>)
        R   == IF err # NoError THEN Routing(currentMessage, confirmQueue, metrics, <<>>, <<>>)
               ELSE IF msg.bodySize < msg.headerBodySize THEN R0
               ELSE route(R0, confirmMode, status, exchanges, order)
    IN  /\ currentMessage.bodySize < currentMessage.headerBodySize + MaxExtraBody
        /\ Handled(Op("body", FALSE, FALSE), err, R.sent, R.calls)
        /\ currentMessage' = R.msg
        /\ confirmQueue' = R.confirmQueue
        /\ metrics' = R.metrics
        /\ UNCHANGED <<confirmMode, confirmDeliveryTag, publishes>>

BasicPublish == \E exchange \in ExchangeNames, mandatory \in BOOLEAN : basicPublish(exchange, mandatory)

HeaderFrame ==
    \E bodySize \in HeaderSizes, persistent \in BOOLEAN, parseOk \in BOOLEAN :
        handleContentHeader(bodySize, persistent, parseOk)

BodyFrame ==
    \E size \in FragmentSizes : \E matched \in SUBSET queues : \E order \in MapOrders(matched) :
        handleContentBody(size, order)

\* ------------------------------------------------------------ confirm drain
\* sendConfirms at a tick: it returns on a closed channel, otherwise it swaps
\* the buffer for an empty one under confirmLock.
DrainTick ==
    /\ drainPc = "tick"
    /\ IF status = channelClosed
       THEN /\ drainPc' = "exited"
            /\ UNCHANGED <<confirmQueue, currentConfirms>>
       ELSE /\ confirmQueue # <<>>
            /\ currentConfirms' = confirmQueue
            /\ confirmQueue' = <<>>
            /\ drainPc' = "send"
    /\ lastOp' = Op("sendConfirms.tick", FALSE, FALSE)
    /\ calls' = <<>>
    /\ sent' = <<>>
    /\ UNCHANGED <<status, active, confirmMode, proto091, sinkVars, lockVars, currentMessage, consumers, qos,
                   deliveryTag, confirmDeliveryTag, ackStore, metrics, envVars, pump, closePc,
                   publishes, tagLog>>

\* A confirm sent as basic.ack(multiple=true)
ConfirmAckMultiple(tag) ==
    [type |-> "Method", chan |-> ChannelId, name |-> "basic.ack", code |-> "", fmt |-> "",
     arg |-> tag, method |-> "multiple=true"]

\* The basic.ack{DeliveryTag: confirm.DeliveryTag, Multiple: false} of sendConfirms
ConfirmAck(tag) ==
    [type |-> "Method", chan |-> ChannelId, name |-> "basic.ack", code |-> "", fmt |-> "",
     arg |-> tag, method |-> "multiple=false"]

\* sendConfirms sends the next basic.ack of its batch.
DrainSend ==
    /\ drainPc = "send"
    /\ sent' = <<ConfirmAck(Head(currentConfirms))>>
    /\ currentConfirms' = Tail(currentConfirms)
    /\ drainPc' = IF Tail(currentConfirms) = <<>> THEN "tick" ELSE "send"
    /\ metrics' = [metrics EXCEPT !.confirm = @ + 1]
    /\ lastOp' = Op("sendConfirms.send", FALSE, FALSE)
    /\ calls' = <<>>
    /\ UNCHANGED <<status, active, confirmMode, proto091, sinkVars, lockVars, currentMessage, consumers, qos,
                   deliveryTag, confirmDeliveryTag, confirmQueue, ackStore, envVars, pump,
                   closePc, publishes, tagLog>>

\* close, its three sections in one step (nothing the publishing side reads
\* changes between them).
close ==
    /\ closePc = "none"
    /\ closePc' = "done"
    /\ consumers' = <<>>
    /\ LET L == IF ChannelId > 0
                THEN rejectMultiple(Here, <<>>, queues, proto091, 0, TRUE)
                ELSE Here
       IN  /\ ackStore' = L.ackStore
           /\ metrics' = L.metrics
           /\ qos' = L.qos
           /\ calls' = L.calls
    /\ status' = channelClosed
    /\ lastOp' = Op("close", FALSE, FALSE)
    /\ sent' = <<>>
    /\ UNCHANGED <<active, confirmMode, proto091, sinkVars, lockVars, currentMessage, deliveryTag,
                   confirmDeliveryTag, confirmQueue, envVars, pump, drainPc,
                   currentConfirms, publishes, tagLog>>

PublishNext ==
    \/ BasicPublish
    \/ confirmSelect
    \/ handleMethodOtherClass
    \/ HeaderFrame
    \/ BodyFrame
    \/ DrainTick
    \/ DrainSend
    \/ close

\* Publishing: message assembly, routing, publisher confirms and close.
PublishInit == Init /\ proto091 /\ queues = QueueNames

PublishSpec == PublishInit /\ [][PublishNext]_vars

\* --------------------------------------------------------------------- flow
\* changeFlow's loop to active with the Consume call left out
flowCallsNoConsume(order, x) ==
    IF x THEN [i \in 1..Len(order) |-> Call("UnPause", order[i], 0)]
    ELSE [i \in 1..Len(order) |-> Call("Pause", order[i], 0)]

\* The calls changeFlow's loop makes on the consumers, visited in `order`:
\* UnPause and Consume on each when the channel becomes active, Pause on each
\* when it becomes inactive.  (The consumer's tag stands in the call's queue
\* field.)
flowCalls(order, x) ==
    IF x
    THEN [i \in 1..(2 * Len(order)) |->
             Call(IF i % 2 = 1 THEN "UnPause" ELSE "Consume", order[(i + 1) \div 2], 0)]
    ELSE [i \in 1..Len(order) |-> Call("Pause", order[i], 0)]

\* changeFlow(x)
changeFlow(x) ==
    /\ active' = x
    /\ IF active = x
       THEN calls' = <<>>
       ELSE \E order \in MapOrders(DOMAIN consumers) : calls' = flowCalls(order, x)
    /\ lastOp' = Op(IF x THEN "changeFlow(true)" ELSE "changeFlow(false)", FALSE, FALSE)
    /\ sent' = <<>>
    /\ UNCHANGED <<status, confirmMode, proto091, sinkVars, lockVars, currentMessage, consumers,
                   qos, deliveryTag, confirmDeliveryTag, confirmQueue, ackStore, metrics,
                   envVars, taskVars, tagLog>>

ChannelFlow == \E x \in BOOLEAN : changeFlow(x)

\* ----------------------------------------------------------- QoS accounting
\* Deliveries and their acknowledgement with the consumers coming and going,
\* on a server of either protocol setting; the queues stay in place.
QosNext ==
    \/ BasicAck
    \/ BasicNack
    \/ BasicReject
    \/ BasicConsume
    \/ BasicCancel
    \/ \E cTag \in ConsumerTags : PumpPop(cTag)
    \/ \E cTag \in ConsumerTags : PumpDeliver(cTag)
    \/ ChannelFlow

QosInit == Init /\ queues = QueueNames

QosSpec == QosInit /\ [][QosNext]_vars

\* ------------------------------------------------------- the outgoing sink
\* A frame as it stands in channel.outgoing; call tells which SendContent or
\* SendMethod call wrote it (the position of the call's method frame).
SinkFrame(call, frame) ==
    [call |-> call, chan |-> frame.chan, type |-> frame.type, name |-> frame.name]

SendCalls == Cardinality({i \in 1..Len(outgoing) : outgoing[i].type = "Method"})

\* SendContent, up to the return of its SendMethod call: the method frame is
\* in the sink, the header and the body frames are still to be written.
\* The dispatch task sends a basic.return, a consumer pump a basic.deliver.
SendContent(w, method) ==
    LET call   == Len(outgoing) + 1
        frames == ContentFrames(method, 1)
    IN  /\ SendCalls < MaxSends
        /\ sending[w] = <<>>
        /\ outgoing' = Append(outgoing, SinkFrame(call, Head(frames)))
        /\ sending' = [sending EXCEPT ![w] =
                          [i \in 1..(Len(frames) - 1) |-> SinkFrame(call, frames[i + 1])]]
        /\ UNCHANGED <<chanVars, envVars, taskVars, ghostVars, lockVars>>

\* sendOutgoing of the next frame of a SendContent call: channel.outgoing <- frame
sendOutgoing(w) ==
    /\ sending[w] # <<>>
    /\ outgoing' = Append(outgoing, Head(sending[w]))
    /\ sending' = [sending EXCEPT ![w] = Tail(@)]
    /\ UNCHANGED <<chanVars, envVars, taskVars, ghostVars, lockVars>>

\* sendConfirms' SendMethod(&amqp.BasicAck{...}) for a confirm of its batch
SendConfirm ==
    /\ SendCalls < MaxSends
    /\ outgoing' = Append(outgoing, SinkFrame(Len(outgoing) + 1, ConfirmAck(1)))
    /\ UNCHANGED <<chanVars, envVars, taskVars, ghostVars, sending, lockVars>>

SinkNext ==
    \/ SendContent("dispatch", "basic.return")
    \/ \E cTag \in ConsumerTags : SendContent(cTag, "basic.deliver")
    \/ \E w \in Writers : sendOutgoing(w)
    \/ SendConfirm

\* The goroutines of one channel writing to the connection's outgoing sink.
SinkSpec == LedgerInit /\ [][SinkNext]_vars

\* ------------------------------------------------------------------ fan-out
\* Publishing through an exchange that has two queues bound, with the confirm
\* drain running and the channel staying open.
RouteNext ==
    \/ BasicPublish
    \/ confirmSelect
    \/ HeaderFrame
    \/ BodyFrame
    \/ DrainTick
    \/ DrainSend

RouteInit == Init /\ proto091 /\ queues = BoundQueues

RouteSpec == RouteInit /\ [][RouteNext]_vars

\* --------------------------------------------------------------------- locks
\* The Lock and Unlock calls a function makes, in order.
LockOp(l)   == [op |-> "Lock", lock |-> l]
UnlockOp(l) == [op |-> "Unlock", lock |-> l]

\* addConsumer, removeConsumer, changeFlow, decQosAndConsumerNext, and the
\* first section of close: cmrLock alone.
cmrScript == <<LockOp("cmrLock"), UnlockOp("cmrLock")>>

RECURSIVE Repeat(_, _)
Repeat(script, n) == IF n = 0 THEN <<>> ELSE script \o Repeat(script, n - 1)

\* handleAck / handleReject with n entries to process: ackLock around the
\* whole call, decQosAndConsumerNext (cmrLock) once per entry inside it.
ackScript(n) == <<LockOp("ackLock")>> \o Repeat(cmrScript, n) \o <<UnlockOp("ackLock")>>

\* AddUnackedMessage: ackLock alone.
addUnackedScript == <<LockOp("ackLock"), UnlockOp("ackLock")>>

\* close with handleReject called before cmrLock is released
closeScriptNested(n) ==
    <<LockOp("cmrLock")>> \o (IF ChannelId > 0 THEN ackScript(n) ELSE <<>>)
    \o <<UnlockOp("cmrLock")>>

\* close: the registry sweep under cmrLock, the unlock, then handleReject
\* on a channel with id > 0.
closeScript(n) == cmrScript \o (IF ChannelId > 0 THEN ackScript(n) ELSE <<>>)

\* Goroutine g enters a function that makes the lock calls of `script`.
Enter(g, script) ==
    /\ lockScript[g] = <<>>
    /\ lockScript' = [lockScript EXCEPT ![g] = script]

\* The dispatch task handles basic.ack / nack / reject (n entries selected) or
\* basic.consume / basic.cancel / channel.flow.
DispatchEnter ==
    /\ \E script \in {ackScript(n) : n \in 0..MaxDeliveryTag} \cup {cmrScript} :
           Enter("dispatch", script)
    /\ UNCHANGED <<chanVars, envVars, taskVars, ghostVars, sinkVars, lockOwner>>

\* The connection's teardown calls close(), once.
CloseEnter ==
    /\ closePc = "none"
    /\ closePc' = "called"
    /\ \E n \in 0..MaxDeliveryTag : Enter("teardown", closeScript(n))
    /\ UNCHANGED <<chanVars, envVars, pump, drainPc, currentConfirms, publishes, ghostVars,
                   sinkVars, lockOwner>>

\* A consumer pump calls AddUnackedMessage.
PumpEnter(cTag) ==
    /\ Enter(cTag, addUnackedScript)
    /\ UNCHANGED <<chanVars, envVars, taskVars, ghostVars, sinkVars, lockOwner>>

\* Goroutine g makes its next lock call: Lock blocks while the mutex is held
\* (by anyone, g included), Unlock frees it.
LockStep(g) ==
    /\ lockScript[g] # <<>>
    /\ LET c == Head(lockScript[g])
       IN  IF c.op = "Lock"
           THEN /\ lockOwner[c.lock] = "none"
                /\ lockOwner' = [lockOwner EXCEPT ![c.lock] = g]
           ELSE lockOwner' = [lockOwner EXCEPT ![c.lock] = "none"]
    /\ lockScript' = [lockScript EXCEPT ![g] = Tail(@)]
    /\ UNCHANGED <<chanVars, envVars, taskVars, ghostVars, sinkVars>>

LockNext ==
    \/ DispatchEnter
    \/ CloseEnter
    \/ \E cTag \in ConsumerTags : PumpEnter(cTag)
    \/ \E g \in Goroutines : LockStep(g)

\* The goroutines of one channel taking ackLock and cmrLock.
LockSpec == LedgerInit /\ [][LockNext]_vars

\* ------------------------------------------------------------------- decode
\* handleIncoming for a Method frame amqp.ReadMethod fails on.  What ReadMethod
\* returns beside the error is either no method (nil) or a method it decoded in
\* part.  method.Name() is called before err is looked at: on a nil method it
\* panics and the process ends.  Otherwise sendError writes the FrameError,
\* and handleMethod is then called with the method all the same (what the
\* handler does with it is not followed further).
handleIncomingUndecodable(methodNil) ==
    LET err == IF methodNil THEN NoError
               ELSE NewConnectionError("FrameError", "err.Error()")
    IN  /\ lastOp' = Op("method.undecodable", FALSE, FALSE)
        /\ calls' = IF methodNil THEN <<Call("panic", "method.Name()", 0)>>
                    ELSE <<Call("handleMethod", "", 0)>>
        /\ sent' = ErrorFrames(err)
        /\ status' = StatusAfter(err, status)
        /\ connStatus' = ConnStatusAfter(err, connStatus)
        /\ UNCHANGED <<active, confirmMode, proto091, sinkVars, lockVars, currentMessage,
                       consumers, qos, deliveryTag, confirmDeliveryTag, confirmQueue,
                       ackStore, metrics, queues, exchanges, taskVars, tagLog>>

UndecodableMethodFrame == \E methodNil \in BOOLEAN : handleIncomingUndecodable(methodNil)

\* The process has not died of a panic.
Running == ~(lastOp.op = "method.undecodable" /\ calls = <<Call("panic", "method.Name()", 0)>>)

DecodeNext ==
    \/ Running /\ UndecodableMethodFrame
    \/ Running /\ QosNext

\* The dispatch task receiving, among the frames it handles, Method frames
\* that do not decode.
DecodeSpec == QosInit /\ [][DecodeNext]_vars

\* ------------------------------------------------------------ tag allocators
\* Goroutine g calls NextDeliveryTag / nextConfirmDeliveryTag; each call is one
\* atomic read-modify-write and returns the new value of its counter.
TagCalls(kind) == Cardinality({i \in 1..Len(tagLog) : tagLog[i].kind = kind})

CallNextDeliveryTag(g) ==
    /\ TagCalls("delivery") < MaxTagCalls
    /\ deliveryTag' = NextDeliveryTag(deliveryTag)
    /\ tagLog' = Append(tagLog, [caller |-> g, kind |-> "delivery", tag |-> deliveryTag'])
    /\ UNCHANGED <<status, active, confirmMode, proto091, sinkVars, lockVars, currentMessage, consumers, qos,
                   confirmDeliveryTag, confirmQueue, ackStore, metrics, envVars, taskVars,
                   lastOp, calls, sent>>

CallNextConfirmDeliveryTag(g) ==
    /\ TagCalls("confirm") < MaxTagCalls
    /\ confirmDeliveryTag' = nextConfirmDeliveryTag(confirmDeliveryTag)
    /\ tagLog' = Append(tagLog, [caller |-> g, kind |-> "confirm", tag |-> confirmDeliveryTag'])
    /\ UNCHANGED <<status, active, confirmMode, proto091, sinkVars, lockVars, currentMessage, consumers, qos,
                   deliveryTag, confirmQueue, ackStore, metrics, envVars, taskVars,
                   lastOp, calls, sent>>

TagNext ==
    \/ \E g \in Callers : CallNextDeliveryTag(g)
    \/ \E g \in Callers : CallNextConfirmDeliveryTag(g)

\* Concurrent callers of the two tag allocators of one channel.
TagSpec == LedgerInit /\ [][TagNext]_vars

\* ------------------------------------------------------------------- claims
Returned(kind) == SelectSeq(tagLog, LAMBDA e : e.kind = kind)

TagsWellIssued(log) ==
    /\ log # <<>> => log[1].tag = 1
    /\ \A i, j \in 1..Len(log) : i # j => log[i].tag # log[j].tag
    /\ \A i, j \in 1..Len(log) :
          i < j /\ log[i].caller = log[j].caller => log[i].tag < log[j].tag

\* C2: for any interleaving of concurrent callers of NextDeliveryTag the
\* returned tags start at 1, are pairwise distinct, and each caller sees
\* strictly increasing values; the confirm tags have the same property, and
\* each counter counts its own calls only.
C2_TagsDistinctIncreasing ==
    /\ TagsWellIssued(Returned("delivery"))
    /\ TagsWellIssued(Returned("confirm"))
    /\ deliveryTag = Len(Returned("delivery"))
    /\ confirmDeliveryTag = Len(Returned("confirm"))

\* Two goroutines have interleaved calls of both allocators.
C2_Witness ==
    /\ Len(tagLog) >= 4
    /\ tagLog[1].caller # tagLog[2].caller
    /\ tagLog[1].kind = "delivery" /\ tagLog[2].kind = "delivery"
    /\ tagLog[3].kind = "confirm" /\ tagLog[4].kind = "delivery"

\* C1: when close() returns, the unacked ledger and the consumer registry are
\* empty, whatever pumps and the dispatch task did meanwhile.
C1_CloseLeavesNothing ==
    [][closePc = "rejected" /\ closePc' = "done"
         => DOMAIN ackStore' = {} /\ DOMAIN consumers' = {}]_vars

Tags == 0..MaxDeliveryTag

AckFrame(N, method) ==
    MethodFrame(ChannelId, "channel.close",
                [type |-> "channel", code |-> "PreconditionFailed",
                 fmt |-> "Delivery tag [%d] not found", arg |-> N, method |-> method])

CallsFor(order, fn, store, present) ==
    LET kept == SelectSeq(order, LAMBDA t : store[t].queue \in present)
    IN  [i \in 1..Len(kept) |-> Call(fn, store[kept[i]].queue, kept[i])]

SameCalls(a, b) ==
    /\ Len(a) = Len(b)
    /\ \A c \in {a[i] : i \in 1..Len(a)} \cup {b[i] : i \in 1..Len(b)} :
          Cardinality({i \in 1..Len(a) : a[i] = c}) = Cardinality({i \in 1..Len(b) : b[i] = c})

\* The tags at most N (all when N = 0) leave the ledger and the others stay as they were.
RemovesUpTo(N) ==
    LET sel == {t \in DOMAIN ackStore : N = 0 \/ t <= N}
    IN  /\ DOMAIN ackStore' = DOMAIN ackStore \ sel
        /\ \A t \in DOMAIN ackStore' : ackStore'[t] = ackStore[t]

\* C3 as stated: basic.ack with multiple=true and tag N removes exactly the
\* entries with tag <= N (all when N = 0), calls queue.AckMsg once per removed
\* entry, leaves the others untouched and returns success.
C3_AckMsgPerRemovedEntry ==
    [][\A N \in Tags : lastOp'.op = "basic.ack" /\ handleAck(N, TRUE) =>
          LET sel == {t \in DOMAIN ackStore : N = 0 \/ t <= N}
          IN  /\ RemovesUpTo(N)
              /\ SameCalls(calls', CallsFor(AscendingOrder(sel), "AckMsg", ackStore,
                                            QueueNames))
              /\ sent' = <<>> /\ status' = status]_vars

\* C3 amended: ... calls queue.AckMsg once per removed entry whose source
\* queue is still in the virtual host (and not at all for the others) ...
C3_AckMsgPerRemovedEntryOfPresentQueue ==
    [][\A N \in Tags : lastOp'.op = "basic.ack" /\ handleAck(N, TRUE) =>
          LET sel == {t \in DOMAIN ackStore : N = 0 \/ t <= N}
          IN  /\ RemovesUpTo(N)
              /\ SameCalls(calls', CallsFor(AscendingOrder(sel), "AckMsg", ackStore, queues))
              /\ metrics'.acknowledge = metrics.acknowledge + Len(calls')
              /\ sent' = <<>> /\ status' = status]_vars

\* A multiple ack took one entry out of the ledger and left a later one in it.
C3_Witness ==
    /\ lastOp = Op("basic.ack", TRUE, FALSE)
    /\ Len(calls) = 1 /\ calls[1] = Call("AckMsg", "q1", 1)
    /\ DOMAIN ackStore = {2}

\* C4: basic.ack, basic.nack or basic.reject with multiple=false and a
\* delivery tag N that is not in the ledger (tag 0 included) returns the
\* channel-level PreconditionFailed error "Delivery tag [N] not found" and
\* leaves the ledger, the queues, the metrics and the QoS counters unchanged.
C4_MissingTagIsPreconditionFailed ==
    [][\A N \in Tags : \A requeue \in BOOLEAN :
          /\ lastOp'.op = "basic.ack" /\ N \notin DOMAIN ackStore /\ handleAck(N, FALSE)
                => /\ sent' = <<AckFrame(N, "basic.ack")>>
                   /\ calls' = <<>>
                   /\ UNCHANGED <<ackStore, queues, metrics, qos>>
          /\ \A name \in {"basic.nack", "basic.reject"} :
                /\ lastOp'.op = name /\ N \notin DOMAIN ackStore
                /\ handleReject(name, N, FALSE, requeue)
                => /\ sent' = <<AckFrame(N, name)>>
                   /\ calls' = <<>>
                   /\ UNCHANGED <<ackStore, queues, metrics, qos>>]_vars

\* A single reject of tag 0 was refused while a delivery is outstanding.
C4_Witness ==
    /\ lastOp = Op("basic.reject", FALSE, TRUE)
    /\ sent = <<AckFrame(0, "basic.reject")>>
    /\ DOMAIN ackStore # {}

Descending(cs) == \A i, j \in 1..Len(cs) : i < j => cs[i].tag > cs[j].tag

\* C5: reject/nack with multiple=true selects exactly the tags <= deliveryTag
\* (all when it is 0) and makes its queue.Requeue (or discard) calls from the
\* highest selected tag to the lowest.
C5_RejectDescending ==
    [][\A N \in Tags : \A requeue \in BOOLEAN :
          lastOp'.op = "basic.nack" /\ handleReject("basic.nack", N, TRUE, requeue) =>
             LET sel == {t \in DOMAIN ackStore : N = 0 \/ t <= N}
                 fn  == IF requeue THEN "Requeue" ELSE "AckMsg"
             IN  /\ RemovesUpTo(N)
                 /\ Descending(calls')
                 /\ SameCalls(calls', CallsFor(AscendingOrder(sel), fn, ackStore, queues))]_vars

\* A multiple nack requeued two deliveries, the later one first.
C5_Witness ==
    /\ lastOp = Op("basic.nack", TRUE, TRUE)
    /\ calls = <<Call("Requeue", "q1", 2), Call("Requeue", "q1", 1)>>

\* ------------------------------------------------------ publisher confirms
\* The ConfirmMetas that entered the ConfirmBuffer and are not emitted yet:
\* the batch the drain task took, then the buffer.
Pending == currentConfirms \o confirmQueue

\* The basic.ack frames among the frames a step wrote.
Acks(frames) == SelectSeq(frames, LAMBDA f : f.name = "basic.ack")

IsPrefix(a, b) == Len(a) <= Len(b) /\ SubSeq(b, 1, Len(a)) = a

FrameErrorOnConnection(frames) ==
    /\ Len(frames) = 1
    /\ frames[1].name = "connection.close"
    /\ frames[1].chan = 0
    /\ frames[1].code = "FrameError"

\* C7: between a basic.publish and the completion of its body, any Method
\* frame and any second Header frame gets a connection-level FrameError
\* (connection Closing, connection.close on channel 0) and is not otherwise
\* processed.
C7_FrameDuringAssemblyIsFrameError ==
    [][ /\ InAssembly(currentMessage)
        /\ \/ lastOp'.op \in {"basic.publish", "confirm.select", "tx.select"}
           \/ lastOp'.op = "header" /\ currentMessage.hasHeader
        => /\ FrameErrorOnConnection(sent')
           /\ connStatus' = "ConnClosing"
           /\ currentMessage' = currentMessage
           /\ confirmMode' = confirmMode
           /\ confirmQueue' = confirmQueue
           /\ calls' = <<>>
      ]_vars

\* C8: a Body frame that finds no message in assembly, or a message without
\* its Header, gets a connection-level FrameError ("... - no header yet" in
\* the latter case) as connection.close on channel 0; the frame causes no
\* queue push, no basic.return and no confirm.
C8_BodyWithoutHeaderIsFrameError ==
    [][ /\ lastOp'.op = "body"
        /\ ~currentMessage.present \/ ~currentMessage.hasHeader
        => /\ FrameErrorOnConnection(sent')
           /\ sent'[1].fmt = IF currentMessage.present
                             THEN "unexpected content body frame - no header yet"
                             ELSE "unexpected content body frame"
           /\ connStatus' = "ConnClosing"
           /\ calls' = <<>>
           /\ confirmQueue' = confirmQueue
           /\ currentConfirms' = currentConfirms
           /\ metrics' = metrics
           /\ currentMessage' = currentMessage
      ]_vars

\* C8 witness: a Body frame arrived after the publish method and before its
\* Header, and the FrameError went out.
C8_Witness ==
    /\ lastOp.op = "body"
    /\ currentMessage.present
    /\ ~currentMessage.hasHeader
    /\ Len(sent) = 1
    /\ sent[1].fmt = "unexpected content body frame - no header yet"

\* C9: a publish whose Header declares body-size 0 is routed on receipt of the
\* Header.  For a mandatory message every outcome of the routing shows: a
\* push to a matched queue or a basic.return.
C9_EmptyBodyRoutedOnHeader ==
    [][ /\ lastOp'.op = "header"
        /\ ~currentMessage.hasHeader
        /\ currentMessage'.hasHeader
        /\ currentMessage'.headerBodySize = 0
        /\ currentMessage'.mandatory
        => calls' # <<>> \/ sent' # <<>>
      ]_vars

\* C10: a publish to an exchange that does not exist, not mandatory, in
\* confirm mode and not persistent, on completion enqueues exactly one
\* ConfirmMeta, sends no basic.return and pushes to no queue.
C10_UnknownExchangeConfirmsWithoutReturn ==
    [][ /\ lastOp'.op = "body"
        /\ currentMessage.hasHeader
        /\ currentMessage.bodySize < currentMessage.headerBodySize
        /\ currentMessage'.bodySize >= currentMessage'.headerBodySize
        /\ currentMessage.exchange \notin exchanges
        /\ ~currentMessage.mandatory
        /\ ~currentMessage.persistent
        /\ confirmMode
        /\ status # channelClosed
        => /\ confirmQueue' = Append(confirmQueue, currentMessage.confirmTag)
           /\ sent' = <<>>
           /\ calls' = <<>>
      ]_vars

\* ------------------------------------------------------------------ routing
\* The Body frame just handled completed (or found complete) the current
\* message, so handleContentBody went on to route it.
RoutedNow ==
    /\ lastOp'.op = "body"
    /\ currentMessage.present
    /\ currentMessage.hasHeader
    /\ currentMessage'.bodySize >= currentMessage'.headerBodySize

\* C11: a completed publish with mandatory=true that cannot be routed (the
\* exchange is absent, or present with no matched queue: no queue is pushed
\* to) produces exactly one basic.return (NoConsumers, "No route", the
\* message's exchange) followed by the message's header and body frames, and
\* enqueues no ConfirmMeta, in confirm mode or not.
C11_MandatoryUnroutableIsReturned ==
    [][ /\ RoutedNow
        /\ currentMessage.mandatory
        /\ currentMessage.exchange \notin exchanges \/ calls' = <<>>
        => /\ Len(sent') = 2 + currentMessage'.frames
           /\ sent'[1].type = "Method"
           /\ sent'[1].name = "basic.return"
           /\ sent'[1].chan = ChannelId
           /\ sent'[1].code = "NoConsumers"
           /\ sent'[1].fmt = "No route"
           /\ sent'[1].method = currentMessage.exchange
           /\ sent'[2].type = "Header"
           /\ \A i \in 3..Len(sent') : sent'[i].type = "Body"
           /\ calls' = <<>>
           /\ confirmQueue' = confirmQueue
           /\ currentConfirms' = currentConfirms
      ]_vars

\* C11 witness: in confirm mode a mandatory message for an existing exchange
\* matched no queue and came back.
C11_Witness ==
    /\ lastOp.op = "body"
    /\ confirmMode
    /\ currentMessage.mandatory
    /\ currentMessage.exchange \in exchanges
    /\ currentMessage.bodySize = currentMessage.headerBodySize
    /\ Len(sent) = 2 + currentMessage.frames
    /\ sent[1].name = "basic.return"
    /\ confirmQueue = <<>>

\* -------------------------------------------------------------------- Closed
\* The frames the dispatch task takes from channel.incoming in LedgerSpec.
InboundOps == {"basic.ack", "basic.nack", "basic.reject", "basic.consume", "basic.cancel"}

CloseHandshake == {"channel.close", "channel.close-ok", "connection.close", "connection.close-ok"}

\* C12: Closed is terminal: once the status is Closed it never changes, an
\* inbound frame received afterwards reaches no handler (the registry and the
\* ledger stay as they are, no queue is called), and no outbound frame other
\* than the close handshake is written.
C12_ClosedIsTerminal ==
    [][ status = channelClosed
        => /\ status' = channelClosed
           /\ \A i \in 1..Len(sent') : sent'[i].name \in CloseHandshake
           /\ lastOp'.op \in InboundOps
              => consumers' = consumers /\ ackStore' = ackStore /\ calls' = <<>>
      ]_vars

C14_LedgerSizeIsUnackedDelta ==
    Cardinality(DOMAIN ackStore) = metrics.unacked

\* ----------------------------------------------------------------------- QoS
\* The ledger entries the step removed.
Released == DOMAIN ackStore \ DOMAIN ackStore'

\* The accountants the claim has an ack or reject of entry t release.
ReleaseSet(t) ==
    IF ackStore[t].cTag \in DOMAIN consumers
    THEN ConsumerQosList(proto091)
    ELSE {"channel", "conn"}

RECURSIVE SizeOf(_)
SizeOf(S) ==
    IF S = {} THEN 0
    ELSE LET t == CHOOSE x \in S : TRUE IN ackStore[t].size + SizeOf(S \ {t})

\* Accountant a went from `before` to `after` by releasing exactly (1, size)
\* for each entry of S.
ReleasedExactly(before, after, S) ==
    /\ before.count >= Cardinality(S)
    /\ before.size >= SizeOf(S)
    /\ after.count = before.count - Cardinality(S)
    /\ after.size = before.size - SizeOf(S)

\* C15: each ack or reject of an unacked message releases exactly (1, body
\* size) once, against the accountants of the message's consumer if it is
\* still registered, otherwise against the channel and connection accountants,
\* and under both protocol settings these are the accountants charged at
\* delivery: every accountant goes down by exactly what is released against it.
C15_QosReleaseIsConservative ==
    [][ /\ lastOp'.op \in {"basic.ack", "basic.nack", "basic.reject"}
        /\ Released # {}
        => /\ ReleasedExactly(qos.channel, qos'.channel,
                              {t \in Released : "channel" \in ReleaseSet(t)})
           /\ ReleasedExactly(qos.conn, qos'.conn,
                              {t \in Released : "conn" \in ReleaseSet(t)})
           /\ \A c \in ConsumerTags :
                 ReleasedExactly(qos.own[c], qos'.own[c],
                                 {t \in Released : /\ ackStore[t].cTag = c
                                                   /\ "own" \in ReleaseSet(t)})
      ]_vars

\* ---------------------------------------------------------------------- sink
\* C16: the method, header and body frames of one SendContent call are
\* contiguous among the channel's frames in the outgoing sink: no frame of
\* another SendContent call and no confirm basic.ack stands between them.
C16_ContentFramesContiguous ==
    \A i, k \in 1..Len(outgoing) :
        i < k /\ outgoing[i].call = outgoing[k].call
        => \A j \in i..k : outgoing[j].chan = ChannelId => outgoing[j].call = outgoing[i].call

\* ---------------------------------------------------------------------- flow
CallsOn(cs, fn) == {cs[i].queue : i \in {j \in 1..Len(cs) : cs[j].fn = fn}}

\* C17: changeFlow(x) with the active flag already x makes no call on any
\* consumer and changes no state; changing the flag to inactive it calls Pause
\* (and nothing else) once on every registered consumer; changing it to active
\* it calls UnPause and then Consume once on every registered consumer; the
\* unacked ledger is never modified.
C17_ChangeFlow ==
    [][ lastOp'.op \in {"changeFlow(true)", "changeFlow(false)"}
        => LET x == (lastOp'.op = "changeFlow(true)")
               n == Cardinality(DOMAIN consumers)
           IN  /\ active' = x
               /\ ackStore' = ackStore
               /\ <<status, confirmMode, currentMessage, consumers, qos, deliveryTag,
                    confirmDeliveryTag, confirmQueue, metrics, envVars, taskVars>>'
                  = <<status, confirmMode, currentMessage, consumers, qos, deliveryTag,
                      confirmDeliveryTag, confirmQueue, metrics, envVars, taskVars>>
               /\ active = x => calls' = <<>>
               /\ active # x /\ ~x
                  => /\ Len(calls') = n
                     /\ CallsOn(calls', "Pause") = DOMAIN consumers
               /\ active # x /\ x
                  => /\ Len(calls') = 2 * n
                     /\ CallsOn(calls', "UnPause") = DOMAIN consumers
                     /\ CallsOn(calls', "Consume") = DOMAIN consumers
                     /\ \A i \in 1..n : /\ calls'[2 * i - 1].fn = "UnPause"
                                        /\ calls'[2 * i].fn = "Consume"
                                        /\ calls'[2 * i].queue = calls'[2 * i - 1].queue
      ]_vars

\* C17 witness: the flow was switched back on with a consumer registered and a
\* delivery unacknowledged.
C17_Witness ==
    /\ lastOp.op = "changeFlow(true)"
    /\ active
    /\ DOMAIN consumers # {}
    /\ DOMAIN ackStore # {}
    /\ Len(calls) = 2 * Cardinality(DOMAIN consumers)

\* ----------------------------------------------------------------- assembly
\* C18: when the accumulated body size reaches the declared body-size the
\* current-message slot is cleared and the message is routed once; a further
\* Body frame without a new basic.publish gets a connection-level FrameError
\* and does not push, return or confirm the completed message again.
C18_CompletedMessageRoutedOnce ==
    [][ /\ lastOp'.op = "body"
        /\ currentMessage.present
        /\ currentMessage.hasHeader
        => /\ /\ currentMessage.bodySize < currentMessage.headerBodySize
              /\ currentMessage'.bodySize >= currentMessage'.headerBodySize
              => ~currentMessage'.present
           /\ /\ currentMessage.frames >= 1
              /\ currentMessage.bodySize >= currentMessage.headerBodySize
              => /\ FrameErrorOnConnection(sent')
                 /\ calls' = <<>>
                 /\ confirmQueue' = confirmQueue
                 /\ metrics' = metrics
      ]_vars

\* ------------------------------------------------------------------ fan-out
\* The Body frame just handled completed the current message for the first
\* time.
FirstRouting ==
    /\ lastOp'.op = "body"
    /\ currentMessage.present
    /\ currentMessage.hasHeader
    /\ currentMessage.frames = 0 \/ currentMessage.bodySize < currentMessage.headerBodySize
    /\ currentMessage'.bodySize >= currentMessage'.headerBodySize

PushedQueues(cs) == {cs[i].queue : i \in {j \in 1..Len(cs) : cs[j].fn = "Push"}}

\* C19: in confirm mode a completed non-persistent publish routed to k >= 1
\* matched queues is pushed once to each of them and adds its ConfirmMeta to
\* the ConfirmBuffer exactly once, whatever k is; a persistent publish adds
\* none at routing time.
C19_OneConfirmPerPublish ==
    [][ /\ FirstRouting
        /\ confirmMode
        /\ status # channelClosed
        /\ calls' # <<>>
        => /\ Len(calls') = Cardinality(PushedQueues(calls'))
           /\ PushedQueues(calls') \subseteq queues
           /\ sent' = <<>>
           /\ confirmQueue' = IF currentMessage.persistent THEN confirmQueue
                              ELSE Append(confirmQueue, currentMessage.confirmTag)
      ]_vars

\* C19 witness: a non-persistent publish in confirm mode went to two queues
\* and the drain task has sent its one basic.ack.
C19_Witness ==
    /\ lastOp.op = "sendConfirms.send"
    /\ confirmMode
    /\ currentMessage.expectedConfirms = 2
    /\ currentMessage.actualConfirms = 2
    /\ ~currentMessage.persistent
    /\ currentMessage.confirmTag = 1
    /\ metrics.confirm = 1
    /\ sent = <<ConfirmAck(1)>>
    /\ Pending = <<>>

\* --------------------------------------------------------------------- locks
\* Goroutine g is at a Lock call.
Requests(g, l) == lockScript[g] # <<>> /\ Head(lockScript[g]) = LockOp(l)

\* Goroutine g can make its next lock call.
CanStep(g) ==
    /\ lockScript[g] # <<>>
    /\ Head(lockScript[g]).op = "Lock" => lockOwner[Head(lockScript[g]).lock] = "none"

\* C20: no goroutine requests ackLock while it holds cmrLock (the only nesting
\* is ackLock, then cmrLock), and the dispatch task, close() and the pumps
\* never deadlock on the two locks: while any of them is inside a call, one of
\* them can go on.
C20_LockOrder ==
    /\ \A g \in Goroutines : lockOwner["cmrLock"] = g => ~Requests(g, "ackLock")
    /\ (\E g \in Goroutines : lockScript[g] # <<>>) => \E g \in Goroutines : CanStep(g)

\* C20 witness: close() holds ackLock inside handleReject and waits for
\* cmrLock, which the dispatch task holds, while a pump waits for ackLock.
C20_Witness ==
    /\ lockOwner["ackLock"] = "teardown"
    /\ Requests("teardown", "cmrLock")
    /\ lockOwner["cmrLock"] = "dispatch"
    /\ \E c \in ConsumerTags : Requests(c, "ackLock")

\* ------------------------------------------------------------------ balance
\* C21: with all queues present, the channel's contributions to the broker
\* counters stay balanced after any sequence of publishes, deliveries, acks
\* and nacks/rejects with or without requeue: Total = Ready + Unacked.
C21_TotalIsReadyPlusUnacked ==
    metrics.total = metrics.ready + metrics.unacked

\* ------------------------------------------------------------------- decode
\* C22: when a Method frame fails to decode the dispatch task raises exactly
\* one connection-level FrameError for it, passes the undecoded method to no
\* handler, and keeps running.
C22_UndecodableMethodIsFrameError ==
    [][ lastOp'.op = "method.undecodable"
        => /\ FrameErrorOnConnection(sent')
           /\ connStatus' = "ConnClosing"
           /\ calls' = <<>>
           /\ Running'
      ]_vars

=============================================================================
